---- MODULE Spec2Model ----
(***************************************************************************)
(* A model of dmf2json.DMFParser: the line classifier and tree builder     *)
(* (parse_file), the value coercion of _parse_attribute, the two string    *)
(* splitters and the structural normalizer (post_process).                 *)
(*                                                                         *)
(* A Python str is a sequence of one-character strings.  A Python value    *)
(* is a record [t, v]: t is the Python type, v the payload.  A dict is a   *)
(* sequence of [k, v] entries in insertion order (an OrderedDict); every   *)
(* dict the parser creates lives in `heap` and is referred to by its       *)
(* index, so that aliasing (self.element, controls lists) is kept.         *)
(***************************************************************************)
EXTENDS Integers, Sequences, FiniteSets, TLC

\* heap: the dicts allocated so far, in allocation order
\* macrolists, menubars, windows, category, element: the fields of the parser
\* input: the lines parse_file has read so far
\* pc, err: where parse() is, and the exception that ended it
\* arg, ret: the argument and the result of a call of a static method
VARIABLES heap, macrolists, menubars, windows, category, element,
          input, pc, err, arg, ret

vars == <<heap, macrolists, menubars, windows, category, element,
          input, pc, err, arg, ret>>

----------------------------------------------------------------------------
(* Bounds of the model.                                                    *)

\* lines of one input file in Spec
MaxLines == 5
\* attribute lines of one input file in SpecAttr
MaxAttrLines == 1
\* length of a raw attribute value in SpecAttr
MaxValLen == 2
\* length of a header line in SpecHeader
MaxHdrLen == 6
\* length of the argument of _parse_key_eq_sign_value in SpecEq
MaxEqLen == 7

----------------------------------------------------------------------------
(* Python str methods.                                                     *)

Whitespace == {" ", "\t", "\n"}

Digits == {"0", "1", "2", "3", "4", "5", "6", "7", "8", "9"}

DigitVal(c) ==
    CASE c = "0" -> 0 [] c = "1" -> 1 [] c = "2" -> 2 [] c = "3" -> 3
      [] c = "4" -> 4 [] c = "5" -> 5 [] c = "6" -> 6 [] c = "7" -> 7
      [] c = "8" -> 8 [] c = "9" -> 9

RECURSIVE lstrip(_, _)
lstrip(s, chars) ==
    IF s # <<>> /\ Head(s) \in chars THEN lstrip(Tail(s), chars) ELSE s

RECURSIVE rstrip(_, _)
rstrip(s, chars) ==
    IF s # <<>> /\ s[Len(s)] \in chars
    THEN rstrip(SubSeq(s, 1, Len(s) - 1), chars)
    ELSE s

strip(s, chars) == lstrip(rstrip(s, chars), chars)

startswith(s, prefix) ==
    Len(s) >= Len(prefix) /\ SubSeq(s, 1, Len(prefix)) = prefix

\* c in s, for a one-character c
contains(s, c) == \E i \in 1..Len(s) : s[i] = c

\* s.replace(a, b) for one-character a and b
replace(s, a, b) == [i \in 1..Len(s) |-> IF s[i] = a THEN b ELSE s[i]]

\* the least index at which sep occurs in s, 0 when it does not
find(s, sep) ==
    LET hits == {i \in 1..(Len(s) - Len(sep) + 1) :
                    SubSeq(s, i, i + Len(sep) - 1) = sep}
    IN  IF hits = {} THEN 0 ELSE CHOOSE i \in hits : \A j \in hits : i <= j

\* s.split(sep): left to right, occurrences do not overlap
RECURSIVE split(_, _)
split(s, sep) ==
    LET i == find(s, sep)
    IN  IF i = 0 THEN <<s>>
        ELSE <<SubSeq(s, 1, i - 1)>> \o split(SubSeq(s, i + Len(sep), Len(s)), sep)

\* s.split(): runs of whitespace separate, no empty strings
RECURSIVE split_ws(_)
split_ws(s) ==
    LET t == lstrip(s, Whitespace)
        ends == {i \in 1..Len(t) : t[i] \in Whitespace}
        e == IF ends = {} THEN Len(t) + 1
             ELSE CHOOSE i \in ends : \A j \in ends : i <= j
    IN  IF t = <<>> THEN <<>>
        ELSE <<SubSeq(t, 1, e - 1)>> \o split_ws(SubSeq(t, e, Len(t)))

isdigit(s) == s # <<>> /\ \A i \in 1..Len(s) : s[i] \in Digits

\* int(s) accepts surrounding whitespace, one sign, and digits with single
\* underscores between them; anything else is a ValueError
int_body(s) ==
    LET t == strip(s, Whitespace)
    IN  IF t # <<>> /\ Head(t) \in {"+", "-"} THEN Tail(t) ELSE t

int_ok(s) ==
    LET b == int_body(s)
    IN  /\ b # <<>>
        /\ \A i \in 1..Len(b) : b[i] \in Digits \cup {"_"}
        /\ b[1] # "_" /\ b[Len(b)] # "_"
        /\ \A i \in 1..(Len(b) - 1) : ~(b[i] = "_" /\ b[i + 1] = "_")

RECURSIVE digits_value(_)
digits_value(b) ==
    IF b = <<>> THEN 0
    ELSE 10 * digits_value(SubSeq(b, 1, Len(b) - 1)) + DigitVal(b[Len(b)])

int_value(s) ==
    LET t == strip(s, Whitespace)
        b == SelectSeq(int_body(s), LAMBDA c : c # "_")
    IN  IF t # <<>> /\ Head(t) = "-" THEN 0 - digits_value(b) ELSE digits_value(b)

----------------------------------------------------------------------------
(* Python values and string literals of the source.                        *)

VStr(s) == [t |-> "str", v |-> s]
VInt(n) == [t |-> "int", v |-> n]
VBool(b) == [t |-> "bool", v |-> b]
VNone == [t |-> "none", v |-> <<>>]
VTuple(xs) == [t |-> "tuple", v |-> xs]
VList(xs) == [t |-> "list", v |-> xs]
VRef(i) == [t |-> "ref", v |-> i]

\* bool(v), as `if v:` takes it
truthy(v) ==
    CASE v.t = "none" -> FALSE
      [] v.t = "bool" -> v.v
      [] v.t = "int" -> v.v # 0
      [] v.t = "ref" -> TRUE
      [] OTHER -> v.v # <<>>

\* the key a value is filed under in a dict: True == 1 and False == 0
dict_key(v) == IF v.t = "bool" THEN VInt(IF v.v THEN 1 ELSE 0) ELSE v

s_type == <<"t", "y", "p", "e">>
s_id == <<"i", "d">>
s_controls == <<"c", "o", "n", "t", "r", "o", "l", "s">>
s_macro == <<"m", "a", "c", "r", "o">>
s_menu == <<"m", "e", "n", "u">>
s_window == <<"w", "i", "n", "d", "o", "w">>
s_MAIN == <<"M", "A", "I", "N">>
s_WINDOW == <<"W", "I", "N", "D", "O", "W">>
s_PANE == <<"P", "A", "N", "E">>
s_is_pane == <<"i", "s", "_", "p", "a", "n", "e">>
s_saved_params == <<"s", "a", "v", "e", "d", "_", "p", "a", "r", "a", "m", "s">>
s_MACROLIST == <<"M", "A", "C", "R", "O", "L", "I", "S", "T">>
s_MACRO == <<"M", "A", "C", "R", "O">>
s_macros == <<"m", "a", "c", "r", "o", "s">>
s_category == <<"c", "a", "t", "e", "g", "o", "r", "y">>
s_MENU == <<"M", "E", "N", "U">>
s_actions == <<"a", "c", "t", "i", "o", "n", "s">>
s_command == <<"c", "o", "m", "m", "a", "n", "d">>
s_name == <<"n", "a", "m", "e">>
s_is_checked == <<"i", "s", "_", "c", "h", "e", "c", "k", "e", "d">>
s_ACTION == <<"A", "C", "T", "I", "O", "N">>
s_group == <<"g", "r", "o", "u", "p">>
s_SEPARATOR == <<"S", "E", "P", "A", "R", "A", "T", "O", "R">>
s_MENUBAR == <<"M", "E", "N", "U", "B", "A", "R">>
s_menus == <<"m", "e", "n", "u", "s">>
s_groups == <<"g", "r", "o", "u", "p", "s">>
s_eq == <<" ", "=", " ">>

DEFAULT_VALUES_MAP ==
    ( <<"n", "o", "n", "e">> :> VNone
   @@ <<"f", "a", "l", "s", "e">> :> VBool(FALSE)
   @@ <<"t", "r", "u", "e">> :> VBool(TRUE) )

DELIMITER_MAP ==
    ( <<"a", "n", "c", "h", "o", "r", "1">> :> <<",">>
   @@ <<"a", "n", "c", "h", "o", "r", "2">> :> <<",">>
   @@ <<"p", "o", "s">> :> <<",">>
   @@ <<"s", "i", "z", "e">> :> <<"x">>
   @@ <<"c", "e", "l", "l", "_", "s", "p", "a", "n">> :> <<"x">>
   @@ <<"c", "e", "l", "l", "s">> :> <<"x">>
   @@ <<"c", "u", "r", "r", "e", "n", "t", "_", "c", "e", "l", "l">> :> <<"x">> )

\* A call either returns (ok, with v) or raises (err names the exception).
Return(v) == [ok |-> TRUE, v |-> v, err |-> ""]
Raise(e) == [ok |-> FALSE, v |-> VNone, err |-> e]

to_ints(string, delimiter) ==
    LET parts == split(string, delimiter)
    IN  IF \A i \in 1..Len(parts) : int_ok(parts[i])
        THEN Return(VTuple([i \in 1..Len(parts) |-> int_value(parts[i])]))
        ELSE Raise("ValueError")

\* as parse_key_value, splitting on each single space: string.split(' ')
parse_key_value_single_space(string) ==
    IF contains(string, " ")
    THEN LET parts == split(string, <<" ">>)
         IN  IF Len(parts) = 2
             THEN Return([key |-> parts[1], value |-> VStr(strip(parts[2], {"\""}))])
             ELSE Raise("ValueError")
    ELSE Return([key |-> string, value |-> VNone])

\* returns the pair [key, value]; unpacking anything but two parts raises
parse_key_value(string) ==
    IF contains(string, " ")
    THEN LET parts == split_ws(string)
         IN  IF Len(parts) = 2
             THEN Return([key |-> parts[1], value |-> VStr(strip(parts[2], {"\""}))])
             ELSE Raise("ValueError")
    ELSE Return([key |-> string, value |-> VNone])

\* as parse_key_eq_sign_value, splitting once: string.split(' = ', 1)
parse_key_eq_sign_value_maxsplit(string) ==
    LET i == find(string, s_eq)
    IN  IF i # 0
        THEN Return([key |-> SubSeq(string, 1, i - 1),
                     value |-> strip(SubSeq(string, i + 3, Len(string)), {"\""})])
        ELSE Raise("ValueError")

parse_key_eq_sign_value(string) ==
    LET parts == split(string, s_eq)
    IN  IF Len(parts) = 2
        THEN Return([key |-> parts[1], value |-> strip(parts[2], {"\""})])
        ELSE Raise("ValueError")

\* as coerce, with the delimiter table consulted before the keyword table
coerce_delimiter_first(name, value) ==
    IF name \in DOMAIN DELIMITER_MAP THEN to_ints(value, DELIMITER_MAP[name])
    ELSE IF value \in DOMAIN DEFAULT_VALUES_MAP THEN Return(DEFAULT_VALUES_MAP[value])
    ELSE IF isdigit(value) THEN Return(VInt(int_value(value)))
    ELSE IF name = s_saved_params
         THEN LET parts == split(value, <<";">>)
              IN  Return(VList([i \in 1..Len(parts) |-> VStr(parts[i])]))
    ELSE Return(VStr(value))

\* _parse_attribute, lines 119-130: the typed value of (name, value), both
\* already hyphen-normalised and the value stripped
coerce(name, value) ==
    IF value \in DOMAIN DEFAULT_VALUES_MAP THEN Return(DEFAULT_VALUES_MAP[value])
    ELSE IF name \in DOMAIN DELIMITER_MAP THEN to_ints(value, DELIMITER_MAP[name])
    ELSE IF isdigit(value) THEN Return(VInt(int_value(value)))
    ELSE IF name = s_saved_params
         THEN LET parts == split(value, <<";">>)
              IN  Return(VList([i \in 1..Len(parts) |-> VStr(parts[i])]))
    ELSE Return(VStr(value))

\* _parse_attribute, lines 117-137, up to the store: the key written in
\* self.element and the value written under it
attribute(text) ==
    LET kv == parse_key_eq_sign_value(lstrip(text, Whitespace))
        name == replace(kv.v.key, "-", "_")
        value == strip(replace(kv.v.value, "-", "_"), {"\n", "\""})
        typed == coerce(name, value)
    IN  IF ~kv.ok THEN Raise(kv.err)
        ELSE IF ~typed.ok THEN Raise(typed.err)
        ELSE IF name = s_type
             THEN Return([key |-> s_type,
                          value |-> IF typed.v = VStr(s_MAIN) THEN VStr(s_WINDOW)
                                    ELSE typed.v])
        ELSE Return([key |-> name, value |-> typed.v])

----------------------------------------------------------------------------
(* OrderedDict operations; a dict is a sequence of [k, v] entries.         *)

has(d, k) == \E i \in 1..Len(d) : d[i].k = k
index(d, k) == CHOOSE i \in 1..Len(d) : d[i].k = k
get(d, k) == d[index(d, k)].v
put(d, k, v) ==
    IF has(d, k) THEN [d EXCEPT ![index(d, k)].v = v]
    ELSE Append(d, [k |-> k, v |-> v])
pop(d, k) == SelectSeq(d, LAMBDA e : e.k # k)

\* a dict allocated by _parse_category, _parse_element or post_process
Obj(site, d) == [site |-> site, d |-> d]

\* h with dict i replaced by d
store(h, i, d) == [h EXCEPT ![i].d = d]

\* the indices a list of references holds
refs(list) == [i \in 1..Len(list.v) |-> list.v[i].v]

----------------------------------------------------------------------------
(* DMFParser.__init__ and parse_file.                                      *)

\* no dict: self.category and self.element before the first header
Nil == 0

ParserInit ==
    /\ heap = <<>>
    /\ macrolists = <<>>
    /\ menubars = <<>>
    /\ windows = <<>>
    /\ category = Nil
    /\ element = Nil
    /\ input = <<>>
    /\ pc = "reading"
    /\ err = ""

\* an exception leaves parse(): nothing runs after it
Fail(e) == pc' = "error" /\ err' = e

\* the list a category of this type is appended to, lines 99-104
bucket(category_type) ==
    IF category_type = s_macro THEN "macrolists"
    ELSE IF category_type = s_menu THEN "menubars"
    ELSE IF category_type = s_window THEN "windows"
    ELSE "none"

\* the dict _parse_category builds, lines 93-97
new_category(category_type, category_id) ==
    LET d1 == <<[k |-> s_type, v |-> VStr(category_type)]>>
        d2 == IF truthy(category_id) THEN put(d1, s_id, category_id) ELSE d1
    IN  put(d2, s_controls, VList(<<>>))

\* the dict _parse_element builds, lines 110-113
new_element(element_type, element_id) ==
    LET d1 == <<[k |-> s_type, v |-> VStr(element_type)]>>
    IN  IF truthy(element_id) THEN put(d1, s_id, element_id) ELSE d1

\* the dict an attribute line writes into, lines 135 and 137
attribute_target == element

\* as element_parent, the new element going to the first category of the file
element_parent_first == IF category = Nil THEN Nil ELSE 1

\* the dict an element header line appends the new element to, line 114
element_parent == category

ParseCategory(text) ==
    LET kv == parse_key_value(text)
        new == Len(heap) + 1
        to == bucket(kv.v.key)
    IN  IF ~kv.ok
        THEN /\ Fail(kv.err)
             /\ UNCHANGED <<heap, macrolists, menubars, windows, category, element>>
        ELSE /\ heap' = Append(heap, Obj("category", new_category(kv.v.key, kv.v.value)))
             /\ category' = new
             /\ macrolists' = IF to = "macrolists" THEN Append(macrolists, new)
                              ELSE macrolists
             /\ menubars' = IF to = "menubars" THEN Append(menubars, new) ELSE menubars
             /\ windows' = IF to = "windows" THEN Append(windows, new) ELSE windows
             /\ UNCHANGED <<element, pc, err>>

ParseElement(text) ==
    LET kv == parse_key_value(lstrip(text, Whitespace))
        new == Len(heap) + 1
        h1 == Append(heap, Obj("element", new_element(kv.v.key, kv.v.value)))
        parent == element_parent
        controls == get(h1[parent].d, s_controls)
    IN  IF ~kv.ok
        THEN /\ Fail(kv.err)
             /\ UNCHANGED <<heap, macrolists, menubars, windows, category, element>>
        ELSE /\ element' = new
             /\ IF parent = Nil
                THEN heap' = h1 /\ Fail("TypeError")
                ELSE /\ heap' = store(h1, parent,
                                      put(h1[parent].d, s_controls,
                                          VList(Append(controls.v, VRef(new)))))
                     /\ UNCHANGED <<pc, err>>
             /\ UNCHANGED <<macrolists, menubars, windows, category>>

ParseAttribute(text) ==
    LET a == attribute(text)
        target == attribute_target
    IN  /\ IF ~a.ok THEN Fail(a.err) /\ UNCHANGED heap
           ELSE IF target = Nil THEN Fail("TypeError") /\ UNCHANGED heap
           ELSE /\ heap' = store(heap, target, put(heap[target].d, a.v.key, a.v.value))
                /\ UNCHANGED <<pc, err>>
        /\ UNCHANGED <<macrolists, menubars, windows, category, element>>

\* one iteration of the loop of parse_file, lines 144-153
ReadLine(l) ==
    LET text == rstrip(l, Whitespace)
    IN  /\ pc = "reading"
        /\ input' = Append(input, l)
        /\ UNCHANGED <<arg, ret>>
        /\ IF text = <<>>
           THEN UNCHANGED <<heap, macrolists, menubars, windows, category, element,
                            pc, err>>
           ELSE IF startswith(text, <<"\t", "\t">>) THEN ParseAttribute(text)
           ELSE IF startswith(text, <<"\t">>) THEN ParseElement(text)
           ELSE ParseCategory(text)

\* as is_pane_pass, a window without children being skipped
RECURSIVE is_pane_pass_guarded(_, _)
is_pane_pass_guarded(h, ws) ==
    IF ws = <<>> THEN [heap |-> h, err |-> ""]
    ELSE LET window == Head(ws)
             controls == get(h[window].d, s_controls)
             e == controls.v[1].v
             is_pane == get(h[e].d, s_is_pane)
             d1 == pop(h[e].d, s_is_pane)
             d2 == IF truthy(is_pane) THEN put(d1, s_type, VStr(s_PANE)) ELSE d1
         IN  IF controls.v = <<>> THEN is_pane_pass_guarded(h, Tail(ws))
             ELSE IF has(h[e].d, s_is_pane)
                  THEN is_pane_pass_guarded(store(h, e, d2), Tail(ws))
             ELSE is_pane_pass_guarded(h, Tail(ws))

\* the loop over self.windows that ends parse_file, lines 155-160: the heap
\* it leaves, and the exception it raises if any
RECURSIVE is_pane_pass(_, _)
is_pane_pass(h, ws) ==
    IF ws = <<>> THEN [heap |-> h, err |-> ""]
    ELSE LET window == Head(ws)
             controls == get(h[window].d, s_controls)
             e == controls.v[1].v
             is_pane == get(h[e].d, s_is_pane)
             d1 == pop(h[e].d, s_is_pane)
             d2 == IF truthy(is_pane) THEN put(d1, s_type, VStr(s_PANE)) ELSE d1
         IN  IF controls.v = <<>> THEN [heap |-> h, err |-> "IndexError"]
             ELSE IF has(h[e].d, s_is_pane)
                  THEN is_pane_pass(store(h, e, d2), Tail(ws))
             ELSE is_pane_pass(h, Tail(ws))

\* the end of the input: parse_file leaves its read loop and runs the pass
EndOfFile ==
    LET r == is_pane_pass(heap, windows)
    IN  /\ pc = "reading"
        /\ heap' = r.heap
        /\ pc' = IF r.err = "" THEN "parsed" ELSE "error"
        /\ err' = r.err
        /\ UNCHANGED <<macrolists, menubars, windows, category, element, input,
                       arg, ret>>

----------------------------------------------------------------------------
(* post_process.                                                           *)

\* h with the type of every dict of ids set to type, lines 167-168
RECURSIVE retag(_, _, _)
retag(h, ids, type) ==
    IF ids = <<>> THEN h
    ELSE retag(store(h, Head(ids), put(h[Head(ids)].d, s_type, VStr(type))),
               Tail(ids), type)

\* the loop over self.macrolists, lines 164-168
RECURSIVE macrolists_pass(_, _)
macrolists_pass(h, ms) ==
    IF ms = <<>> THEN h
    ELSE LET macrolist == Head(ms)
             d1 == put(h[macrolist].d, s_type, VStr(s_MACROLIST))
             controls == get(d1, s_controls)
             d2 == put(pop(d1, s_controls), s_macros, controls)
         IN  macrolists_pass(retag(store(h, macrolist, d2), refs(controls), s_MACRO),
                             Tail(ms))

\* the record made for a category name seen first on an action, lines 186-191
synthetic_category(category_name) ==
    << [k |-> s_name, v |-> category_name],
       [k |-> s_command, v |-> VStr(<<>>)],
       [k |-> s_saved_params, v |-> VStr(s_is_checked)],
       [k |-> s_actions, v |-> VList(<<>>)] >>

\* groups.add(g): a set holds one of two equal values
set_add(groups, g) ==
    IF \E x \in groups : dict_key(x) = dict_key(g) THEN groups ELSE groups \cup {g}

\* one iteration of the loop over a menu-bar's entries, lines 175-200, on the
\* locals st = [heap, categories, groups, err]
menu_step(st, menu) ==
    LET d == st.heap[menu].d
    IN  IF ~has(d, s_category)
        THEN LET d1 == put(put(d, s_type, VStr(s_MENU)), s_actions, VList(<<>>))
                 d2 == pop(pop(d1, s_command), s_saved_params)
                 h1 == store(st.heap, menu, d2)
             IN  IF has(d2, s_name)
                 THEN [st EXCEPT !.heap = h1,
                                 !.categories = put(@, dict_key(get(d2, s_name)), menu)]
                 ELSE [st EXCEPT !.heap = h1, !.err = "KeyError"]
        ELSE LET category_name == get(d, s_category)
                 key == dict_key(category_name)
                 d1 == pop(d, s_category)
                 h1 == store(st.heap, menu, d1)
                 fresh == ~has(st.categories, key)
                 h2 == IF fresh
                       THEN Append(h1, Obj("record", synthetic_category(category_name)))
                       ELSE h1
                 categories == IF fresh THEN put(st.categories, key, Len(h2))
                               ELSE st.categories
                 named == has(d1, s_name) /\ truthy(get(d1, s_name))
                 h3 == IF named
                       THEN store(h2, menu, put(d1, s_type, VStr(s_ACTION)))
                       ELSE Append(h2, Obj("record",
                                           <<[k |-> s_type, v |-> VStr(s_SEPARATOR)]>>))
                 entry == IF named THEN menu ELSE Len(h3)
                 groups == IF named /\ has(d1, s_group) /\ truthy(get(d1, s_group))
                           THEN set_add(st.groups, get(d1, s_group))
                           ELSE st.groups
                 target == get(categories, key)
                 actions == get(h3[target].d, s_actions)
             IN  [st EXCEPT !.heap = store(h3, target,
                                           put(h3[target].d, s_actions,
                                               VList(Append(actions.v, VRef(entry))))),
                            !.categories = categories,
                            !.groups = groups]

RECURSIVE menu_loop(_, _)
menu_loop(st, menus) ==
    IF menus = <<>> \/ st.err # "" THEN st
    ELSE menu_loop(menu_step(st, Head(menus)), Tail(menus))

\* the sequences that list(groups) can be: a set iterates in any order
orders(groups) ==
    {q \in [1..Cardinality(groups) -> groups] : \A g \in groups : \E i \in DOMAIN q : q[i] = g}

\* the loop over self.menubars, lines 170-204; pick gives, for each menu-bar,
\* the order its set of groups is listed in
RECURSIVE menubars_pass(_, _, _)
menubars_pass(h, bars, pick) ==
    IF bars = <<>> THEN [heap |-> h, err |-> ""]
    ELSE LET menubar == Head(bars)
             menus == get(h[menubar].d, s_controls)
             h1 == store(h, menubar, pop(h[menubar].d, s_controls))
             st == menu_loop([heap |-> h1, categories |-> <<>>, groups |-> {},
                              err |-> ""], refs(menus))
             values == [i \in 1..Len(st.categories) |-> VRef(st.categories[i].v)]
             order == CHOOSE q \in orders(st.groups) :
                         \A i, j \in DOMAIN q : i < j => pick[q[i]] < pick[q[j]]
             d1 == put(st.heap[menubar].d, s_type, VStr(s_MENUBAR))
             d2 == put(put(d1, s_menus, VList(values)), s_groups, VList(order))
         IN  IF st.err # "" THEN [heap |-> st.heap, err |-> st.err]
             ELSE menubars_pass(store(st.heap, menubar, d2), Tail(bars), pick)

\* as windows_pass, the first child read as controls[0] and left in the list
RECURSIVE windows_pass_no_pop(_, _, _)
windows_pass_no_pop(h, ws, i) ==
    IF i > Len(ws) THEN [heap |-> h, windows |-> ws, err |-> ""]
    ELSE LET window == ws[i]
             controls == get(h[window].d, s_controls)
             true_window == controls.v[1].v
             h2 == store(h, true_window, put(h[true_window].d, s_controls, controls))
         IN  IF controls.v = <<>> THEN [heap |-> h, windows |-> ws, err |-> "IndexError"]
             ELSE windows_pass_no_pop(h2, [ws EXCEPT ![i] = true_window], i + 1)

\* the loop over self.windows, lines 206-210
RECURSIVE windows_pass(_, _, _)
windows_pass(h, ws, i) ==
    IF i > Len(ws) THEN [heap |-> h, windows |-> ws, err |-> ""]
    ELSE LET window == ws[i]
             controls == get(h[window].d, s_controls)
             true_window == controls.v[1].v
             rest == VList(Tail(controls.v))
             h1 == store(h, window, put(h[window].d, s_controls, rest))
             h2 == store(h1, true_window, put(h1[true_window].d, s_controls, rest))
         IN  IF controls.v = <<>> THEN [heap |-> h, windows |-> ws, err |-> "IndexError"]
             ELSE windows_pass(h2, [ws EXCEPT ![i] = true_window], i + 1)

\* the values of group fields in the heap: what a set of groups can hold
group_values ==
    {get(heap[i].d, s_group) : i \in {j \in 1..Len(heap) : has(heap[j].d, s_group)}}

PostProcess ==
    /\ pc = "parsed"
    /\ \E pick \in {f \in [group_values -> 1..Cardinality(group_values)] :
                         \A x, y \in group_values : x # y => f[x] # f[y]} :
          LET h1 == macrolists_pass(heap, macrolists)
              r2 == menubars_pass(h1, menubars, pick)
              r3 == windows_pass(r2.heap, windows, 1)
          IN  IF r2.err # ""
              THEN heap' = r2.heap /\ windows' = windows /\ Fail(r2.err)
              ELSE /\ heap' = r3.heap
                   /\ windows' = r3.windows
                   /\ pc' = IF r3.err = "" THEN "done" ELSE "error"
                   /\ err' = r3.err
    /\ UNCHANGED <<macrolists, menubars, category, element, input, arg, ret>>

----------------------------------------------------------------------------
(* The input files of Spec: every sequence of at most MaxLines lines drawn  *)
(* from Lines, read one line at a time.                                     *)

quoted(s) == <<"\"">> \o s \o <<"\"">>
header(kind, id) == kind \o <<" ">> \o quoted(id)
element_line(type) == <<"\t">> \o type
attribute_line(name, value) == <<"\t", "\t">> \o name \o s_eq \o value

Lines ==
    { header(s_window, <<"m", "a", "i", "n">>),
      s_menu,
      s_macro,
      <<"x">>,
      element_line(s_MAIN),
      attribute_line(s_is_pane, quoted(<<"t", "r", "u", "e">>)),
      attribute_line(s_category, quoted(<<"F">>)),
      attribute_line(s_name, quoted(<<"F">>)),
      attribute_line(s_name, quoted(<<"0">>)),
      attribute_line(s_group, quoted(<<"g">>)),
      <<>> }

Init == ParserInit /\ arg = <<>> /\ ret = Return(VNone)

Next ==
    \/ Len(input) < MaxLines /\ \E l \in Lines : ReadLine(l)
    \/ EndOfFile
    \/ PostProcess

Spec == Init /\ [][Next]_vars

----------------------------------------------------------------------------
(* SpecAttr: parse_file on `window "main"`, an element header and then      *)
(* at most MaxAttrLines attribute lines `name = value`, the name drawn from *)
(* AttrNames and the value from AttrValues.                                 *)

\* every string over alphabet of length at most n
Strings(alphabet, n) == UNION {[1..k -> alphabet] : k \in 0..n}

s_pos == <<"p", "o", "s">>
s_cell_span == <<"c", "e", "l", "l", "-", "s", "p", "a", "n">>

AttrNames == {s_pos, s_cell_span, s_saved_params, s_type, s_name}

AttrAlphabet == {"1", ",", "x", ";", "-"}

AttrValues ==
    Strings(AttrAlphabet, MaxValLen)
    \cup { <<"t", "r", "u", "e">>, quoted(<<"t", "r", "u", "e">>),
           <<"f", "a", "l", "s", "e">>, <<"n", "o", "n", "e">>,
           s_MAIN, quoted(s_MAIN),
           quoted(<<"3", ",", "4", ",", "5">>), <<"2", "0", "x", "5", "0">>,
           <<"0", "7">>, <<"a", ";", "b">> }

NextAttr ==
    \/ Len(input) = 0 /\ ReadLine(header(s_window, <<"m", "a", "i", "n">>))
    \/ Len(input) = 1 /\ ReadLine(element_line(s_MAIN))
    \/ /\ Len(input) >= 2
       /\ Len(input) < 2 + MaxAttrLines
       /\ \E n \in AttrNames, v \in AttrValues : ReadLine(attribute_line(n, v))

SpecAttr == Init /\ [][NextAttr]_vars

----------------------------------------------------------------------------
(* SpecHeader: parse_file on the category header `menu` and then one line   *)
(* drawn from every string over HeaderAlphabet of at most MaxHdrLen         *)
(* characters.                                                              *)

HeaderAlphabet == {"a", " ", "\"", "\t"}

NextHeader ==
    \/ Len(input) = 0 /\ ReadLine(s_menu)
    \/ Len(input) = 1 /\ \E l \in Strings(HeaderAlphabet, MaxHdrLen) : ReadLine(l)

SpecHeader == Init /\ [][NextHeader]_vars

----------------------------------------------------------------------------
(* SpecEq: one call of the static method _parse_key_eq_sign_value on every  *)
(* string over EqAlphabet of at most MaxEqLen characters.                   *)

EqAlphabet == {"k", " ", "=", "\""}

InitEq ==
    /\ ParserInit
    /\ arg \in Strings(EqAlphabet, MaxEqLen)
    /\ ret = Return(VNone)

CallEq ==
    /\ pc = "reading"
    /\ ret = Return(VNone)
    /\ ret' = parse_key_eq_sign_value(arg)
    /\ pc' = "returned"
    /\ UNCHANGED <<heap, macrolists, menubars, windows, category, element, input,
                   err, arg>>

NextEq == CallEq

SpecEq == InitEq /\ [][NextEq]_vars

----------------------------------------------------------------------------
(* Claims about the string splitters and the coercion.                      *)

\* u is v without its leading and trailing double quotes
Unquoted(v, u) ==
    \E i \in 1..(Len(v) + 1), j \in 0..Len(v) :
        /\ u = SubSeq(v, i, j)
        /\ \A n \in 1..(i - 1) : v[n] = "\""
        /\ \A n \in (j + 1)..Len(v) : v[n] = "\""
        /\ i <= j => v[i] # "\"" /\ v[j] # "\""
        /\ i > j => i = j + 1 /\ \A n \in 1..Len(v) : v[n] = "\""

UnquotedOf(v) ==
    CHOOSE u \in {SubSeq(v, i, j) : i \in 1..(Len(v) + 1), j \in 0..Len(v)} :
        Unquoted(v, u)

\* the places of s where the separator " = " stands
EqAt(s) == {i \in 1..(Len(s) - 2) : s[i] = " " /\ s[i + 1] = "=" /\ s[i + 2] = " "}

FirstEq(s) == CHOOSE i \in EqAt(s) : \A j \in EqAt(s) : i <= j

\* s holds the separator once, reading left to right and not counting an
\* occurrence that overlaps the first
OneEq(s) == EqAt(s) # {} /\ \A j \in EqAt(s) : j < FirstEq(s) + 3

\* C5 (amended): _parse_key_eq_sign_value returns (k, v) exactly for the
\* strings that hold the separator " = " once: k is the text before it, v the
\* text after it without its leading and trailing double quotes.  On every
\* other string, with no separator or with more than one, it raises ValueError.
C5_OneSeparator ==
    pc = "returned" =>
        IF OneEq(arg)
        THEN /\ ret.ok
             /\ ret.v.key = SubSeq(arg, 1, FirstEq(arg) - 1)
             /\ Unquoted(SubSeq(arg, FirstEq(arg) + 3, Len(arg)), ret.v.value)
        ELSE ~ret.ok /\ ret.err = "ValueError"

\* C5 as stated: every string k = v, v arbitrary text, yields (k, v without
\* its quotes), and a string without the separator raises
C5_Original ==
    pc = "returned" =>
        /\ \E p \in EqAt(arg) \cup {0} :
              /\ EqAt(arg) # {} => p # 0
              /\ p # 0 => ret.ok
              /\ p # 0 => ret.v.key = SubSeq(arg, 1, p - 1)
              /\ p # 0 => Unquoted(SubSeq(arg, p + 3, Len(arg)), ret.v.value)
        /\ EqAt(arg) = {} => ~ret.ok /\ ret.err = "ValueError"

\* the call on k = "k" returned the pair (k, k)
C5_Witness ==
    /\ pc = "returned"
    /\ ret.ok
    /\ arg = <<"k", " ", "=", " ", "\"", "k", "\"">>
    /\ ret.v = [key |-> <<"k">>, value |-> <<"k">>]

\* the text _parse_key_value is handed for line l: parse_file strips the end
\* of the line, _parse_element the start of an element header too
HeaderText(l) ==
    LET t == rstrip(l, Whitespace)
    IN  IF startswith(t, <<"\t">>) THEN lstrip(t, Whitespace) ELSE t

\* l is a category header (no leading tab) or an element header (one)
IsHeader(l) ==
    LET t == rstrip(l, Whitespace)
    IN  t # <<>> /\ ~startswith(t, <<"\t", "\t">>)

\* where the whitespace-separated tokens of t start, and where the token
\* that starts at i ends
TokenStarts(t) == {i \in 1..Len(t) : t[i] \notin Whitespace /\ (i = 1 \/ t[i - 1] \in Whitespace)}
TokenEnd(t, i) ==
    CHOOSE j \in i..Len(t) :
        /\ \A n \in i..j : t[n] \notin Whitespace
        /\ j = Len(t) \/ t[j + 1] \in Whitespace
Min(S) == CHOOSE i \in S : \A j \in S : i <= j
Max(S) == CHOOSE i \in S : \A j \in S : i >= j

\* the dict the header line just read was turned into has this type and id
HeaderMade(type, id) ==
    /\ pc = "reading"
    /\ Len(heap) = 2
    /\ get(heap[2].d, s_type) = VStr(type)
    /\ IF id = <<>> THEN ~has(heap[2].d, s_id)
       ELSE has(heap[2].d, s_id) /\ get(heap[2].d, s_id) = VStr(id)

Spaces(l) == {i \in 1..Len(l) : l[i] = " "}

AttrName(l) == SubSeq(l, 3, find(l, s_eq) - 1)
AttrRaw(l) == SubSeq(l, find(l, s_eq) + 3, Len(l))

\* what the chain of C2 gives where a piece of a delimited value is no integer
C2_NoValue == [t |-> "raise", v |-> <<>>]

\* the chain of C2 on (name, value)
C2_Chain(name, value) ==
    LET commas == {<<"a", "n", "c", "h", "o", "r", "1">>,
                   <<"a", "n", "c", "h", "o", "r", "2">>, <<"p", "o", "s">>}
        exes == {<<"s", "i", "z", "e">>, <<"c", "e", "l", "l", "_", "s", "p", "a", "n">>,
                 <<"c", "e", "l", "l", "s">>,
                 <<"c", "u", "r", "r", "e", "n", "t", "_", "c", "e", "l", "l">>}
        pieces == split(value, IF name \in commas THEN <<",">> ELSE <<"x">>)
        items == split(value, <<";">>)
    IN  IF value = <<"n", "o", "n", "e">> THEN VNone
        ELSE IF value = <<"f", "a", "l", "s", "e">> THEN VBool(FALSE)
        ELSE IF value = <<"t", "r", "u", "e">> THEN VBool(TRUE)
        ELSE IF name \in commas \cup exes
             THEN IF \E i \in 1..Len(pieces) : ~int_ok(pieces[i]) THEN C2_NoValue
                  ELSE VTuple([i \in 1..Len(pieces) |-> int_value(pieces[i])])
        ELSE IF value # <<>> /\ \A i \in 1..Len(value) : value[i] \in Digits
             THEN VInt(int_value(value))
        ELSE IF name = s_saved_params
             THEN VList([i \in 1..Len(items) |-> VStr(items[i])])
        ELSE VStr(value)

----------------------------------------------------------------------------
(* Claims about parse_file and post_process, on the input read so far.      *)

IsCategoryLine(l) == IsHeader(l) /\ ~startswith(l, <<"\t">>)
IsElementLine(l) == IsHeader(l) /\ startswith(l, <<"\t">>)
IsAttributeLine(l) == startswith(rstrip(l, Whitespace), <<"\t", "\t">>)

\* the kind a category header names: its text up to the first space
Kind(l) ==
    LET t == rstrip(l, Whitespace)
        sp == {i \in 1..Len(t) : t[i] = " "}
    IN  IF sp = {} THEN t ELSE SubSeq(t, 1, Min(sp) - 1)

\* the sequence 1..n without the numbers P rejects
Only(n, P(_)) == SelectSeq([i \in 1..n |-> i], P)

\* the header lines of the input, in order: the j-th made the j-th dict
Headers == Only(Len(input), LAMBDA i : IsHeader(input[i]))

\* the controls lists of heap h that hold a reference to dict e
Holders(h, e) ==
    {i \in 1..Len(h) : /\ has(h[i].d, s_controls)
                       /\ \E n \in 1..Len(get(h[i].d, s_controls).v) :
                             get(h[i].d, s_controls).v[n] = VRef(e)}

\* of the header lines H, the places of the category headers of this kind
OfKind(H, kind) ==
    Only(Len(H), LAMBDA j : IsCategoryLine(input[H[j]]) /\ Kind(input[H[j]]) = kind)

\* of the header lines H, the places of the element headers that follow
\* category header c with no other category header in between
Children(H, c) ==
    Only(Len(H),
         LAMBDA j : /\ j > c
                    /\ \A n \in (c + 1)..j : IsElementLine(input[H[n]]))

\* C7: while the lines read so far were all accepted, macrolists, menubars
\* and windows hold exactly the categories of kind macro, menu and window in
\* source order, and the controls list of every category holds, in source
\* order, exactly the elements whose header followed its own header with no
\* other category header in between; blank lines count for nothing.
C7_Forest ==
    pc = "reading" =>
        LET H == Headers
        IN  /\ Len(heap) = Len(H)
            /\ macrolists = OfKind(H, s_macro)
            /\ menubars = OfKind(H, s_menu)
            /\ windows = OfKind(H, s_window)
            /\ \A c \in 1..Len(H) :
                  IsCategoryLine(input[H[c]]) =>
                      LET children == Children(H, c)
                      IN  get(heap[c].d, s_controls) =
                              VList([k \in 1..Len(children) |-> VRef(children[k])])
            /\ \A e \in 1..Len(H) :
                  IsElementLine(input[H[e]]) =>
                      Cardinality(Holders(heap, e)) = 1

\* a macro list with one element, a blank line, a window with one element
C7_Witness ==
    /\ pc = "reading"
    /\ input = <<s_macro, element_line(s_MAIN), <<>>,
                 header(s_window, <<"m", "a", "i", "n">>), element_line(s_MAIN)>>
    /\ macrolists = <<1>>
    /\ windows = <<3>>

\* the input holds a window category without a child element
EmptyWindow ==
    LET H == Headers
    IN  \E j \in 1..Len(H) :
            /\ IsCategoryLine(input[H[j]])
            /\ Kind(input[H[j]]) = s_window
            /\ j = Len(H) \/ IsCategoryLine(input[H[j + 1]])

\* C9: once the input holds a window category without children, parse never
\* gets past parse_file: it ends in an error, and every entry of windows is
\* still the category that parse_file put there.
C9_EmptyWindowFails ==
    EmptyWindow =>
        /\ pc \in {"reading", "error"}
        /\ \A k \in 1..Len(windows) :
              /\ heap[windows[k]].site = "category"
              /\ get(heap[windows[k]].d, s_type) = VStr(s_window)

\* parse_file raised IndexError on a window without children that follows a
\* window with a child
C9_Witness ==
    /\ EmptyWindow
    /\ pc = "error"
    /\ err = "IndexError"
    /\ Len(windows) = 2
    /\ get(heap[windows[1]].d, s_controls) # VList(<<>>)

\* post_process ran to its end in this step
Normalized == pc = "parsed" /\ pc' = "done"

\* C4: post_process leaves windows as long as it found it, and puts in the
\* place of every window category its first child: the child's own fields
\* are untouched, its controls field is the list of the category's other
\* children in source order, and no controls list holds the child any more.
C4_Promotion ==
    [][Normalized =>
          /\ Len(windows') = Len(windows)
          /\ \A k \in 1..Len(windows) :
                LET children == get(heap[windows[k]].d, s_controls).v
                    first == children[1].v
                IN  /\ windows'[k] = first
                    /\ pop(heap'[first].d, s_controls) = pop(heap[first].d, s_controls)
                    /\ get(heap'[first].d, s_controls) = VList(Tail(children))
                    /\ Holders(heap', first) = {}]_vars

\* a window with two children was normalized
C4_Witness ==
    /\ pc = "done"
    /\ \E k \in 1..Len(windows) :
          /\ heap[windows[k]].site = "element"
          /\ get(heap[windows[k]].d, s_controls).v # <<>>

\* C1 as stated: the three lines give one window record of type PANE with id
\* main and no controls
C1_Scenario ==
    ( /\ pc = "done"
      /\ input = <<header(s_window, <<"m", "a", "i", "n">>), element_line(s_MAIN),
                   attribute_line(s_is_pane, quoted(<<"t", "r", "u", "e">>))>> ) =>
        /\ Len(windows) = 1
        /\ get(heap[windows[1]].d, s_type) = VStr(s_PANE)
        /\ get(heap[windows[1]].d, s_controls) = VList(<<>>)
        /\ has(heap[windows[1]].d, s_id)
        /\ get(heap[windows[1]].d, s_id) = VStr(<<"m", "a", "i", "n">>)

\* C10 as stated: the dict an attribute line writes into is a child of the
\* current category
C10_WritesInCurrentCategory ==
    [][(Len(input') = Len(input) + 1 /\ IsAttributeLine(input'[Len(input')])) =>
          \A e \in 1..Len(heap) :
              heap'[e] # heap[e] => /\ category # Nil
                                    /\ category \in Holders(heap, e)]_vars

\* the entries of menu-bar bar that carry a category field, in source order,
\* and those among them that carry category name
Carried(bar) ==
    SelectSeq(refs(get(heap[bar].d, s_controls)), LAMBDA e : has(heap[e].d, s_category))
CarriedBy(bar, name) ==
    SelectSeq(Carried(bar), LAMBDA e : get(heap[e].d, s_category) = name)

\* the place among the entries of bar where name is first seen, as the
\* category of an entry or as the name of an entry without category
FirstSeen(bar, name) ==
    LET entries == refs(get(heap[bar].d, s_controls))
    IN  Min({n \in 1..Len(entries) :
                LET d == heap[entries[n]].d
                IN  IF has(d, s_category) THEN get(d, s_category) = name
                    ELSE has(d, s_name) /\ get(d, s_name) = name})

SeparatorRecord == <<[k |-> s_type, v |-> VStr(s_SEPARATOR)]>>

\* C3 as stated: after post_process, every category name an entry of a
\* menu-bar refers to has exactly one record in menus, whose actions are the
\* entries that carried the name, each once and in source order, as an ACTION
\* or a SEPARATOR record; menus is in first-seen order of the names and none
\* of its records has a category field.
C3_Aggregation ==
    [][Normalized =>
          \A b \in 1..Len(menubars) :
              LET bar == menubars[b]
                  menus == refs(get(heap'[bar].d, s_menus))
                  name(i) == get(heap'[menus[i]].d, s_name)
              IN  /\ \A e \in {Carried(bar)[n] : n \in 1..Len(Carried(bar))} :
                        LET C == get(heap[e].d, s_category)
                            mine == CarriedBy(bar, C)
                            recs == {i \in 1..Len(menus) : name(i) = C}
                            acts == refs(get(heap'[menus[Min(recs)]].d, s_actions))
                        IN  /\ Cardinality(recs) = 1
                            /\ Len(acts) = Len(mine)
                            /\ \A n \in 1..Len(mine) :
                                  \/ /\ acts[n] = mine[n]
                                     /\ get(heap'[acts[n]].d, s_type) = VStr(s_ACTION)
                                  \/ heap'[acts[n]].d = SeparatorRecord
                  /\ \A i, j \in 1..Len(menus) :
                        i < j => FirstSeen(bar, name(i)) < FirstSeen(bar, name(j))
                  /\ \A i \in 1..Len(menus) : ~has(heap'[menus[i]].d, s_category)]_vars

\* the actions lists of heap h that hold a reference to dict e
InActions(h, e) ==
    {i \in 1..Len(h) : /\ has(h[i].d, s_actions)
                       /\ \E n \in 1..Len(get(h[i].d, s_actions).v) :
                             get(h[i].d, s_actions).v[n] = VRef(e)}

\* the source gave entry e a name that is not empty
SourceNamed(e) == has(heap[e].d, s_name) /\ get(heap[e].d, s_name) # VStr(<<>>)

\* C8 as stated: an entry with a category and a non-empty name becomes an
\* ACTION that keeps its other fields and stands in an actions list; one
\* without a name is replaced by the record {type: SEPARATOR}; groups holds,
\* once each, the non-empty group values of the entries retagged ACTION.
C8_ActionsAndSeparators ==
    [][Normalized =>
          \A b \in 1..Len(menubars) :
              LET bar == menubars[b]
                  carried == {Carried(bar)[n] : n \in 1..Len(Carried(bar))}
                  groups == get(heap'[bar].d, s_groups).v
              IN  /\ \A e \in carried :
                        IF SourceNamed(e)
                        THEN /\ heap'[e].d = put(pop(heap[e].d, s_category),
                                                 s_type, VStr(s_ACTION))
                             /\ InActions(heap', e) # {}
                        ELSE InActions(heap', e) = {}
                  /\ Cardinality({r \in 1..Len(heap') : heap'[r].d = SeparatorRecord})
                        >= Cardinality({e \in carried : ~SourceNamed(e)})
                  /\ {groups[n] : n \in 1..Len(groups)} =
                        {get(heap[e].d, s_group) :
                            e \in {x \in carried :
                                      /\ get(heap'[x].d, s_type) = VStr(s_ACTION)
                                      /\ has(heap[x].d, s_group)
                                      /\ get(heap[x].d, s_group) # VStr(<<>>)}}
                  /\ Len(groups) = Cardinality({groups[n] : n \in 1..Len(groups)})
                  /\ get(heap[bar].d, s_controls) = VList(<<>>) =>
                        /\ get(heap'[bar].d, s_menus) = VList(<<>>)
                        /\ groups = <<>>]_vars

====
